---- MODULE Spec2Model ----
(***************************************************************************)
(* A model of yt2pc (src/yt2pc.py): the orchestrator main(), the           *)
(* recurrence check check_show(), the playlist selection and metadata      *)
(* resolution of get_playlist_content(), the download loop download(),     *)
(* the feed publisher write_podcast() and the History store.               *)
(*                                                                         *)
(* Text (show ids, episode ids, titles, file names, history lines) is a    *)
(* sequence of one-character strings, so that formatting, prefix tests     *)
(* and splitting are computed as the code computes them.  Instants are     *)
(* integers (ticks of the wall clock); publish dates are day numbers.      *)
(***************************************************************************)
EXTENDS Integers, Sequences, FiniteSets, TLC

VARIABLES
    now,            \* the wall clock, datetime.datetime.now()
    pc,             \* position of the process: "idle" (not running), "loop",
                    \* "save_open", "save_write", "save_rename"
    selected_show,  \* the --show argument of the running process (NoShow: absent)
    shows,          \* config['shows'] of the running process
    idx,            \* position of the for loop of main() in shows
    data,           \* History.data of the running process
    wpos,           \* number of lines _save has written to the temp file
    disk,           \* the history file and its temp file, by path
    files,          \* the file names in podcast-dir (audio and intermediate files)
    visited,        \* shows check_show was called for in the current/last run
    endedBy,        \* how the last run ended: "none", "done", "exception", "killed"
    obs,            \* what the last check_show call did, the feed it wrote included
    sel             \* the episode selector applied to a listing (SpecSel)

vars == <<now, pc, selected_show, shows, idx, data, wpos, disk, files,
          visited, endedBy, obs, sel>>

(***************************************************************************)
(* Bounds of the model.                                                    *)
(***************************************************************************)
MaxNow == 3        \* the clock stops advancing here
MaxListing == 2    \* episodes the flat listings of one show return in one run (SpecDl)
MaxListingRuns == 1 \* the same, in the runs over both shows (Spec)
MaxEpisodes == 12  \* length of the listings the selector is applied to (SpecSel)

(***************************************************************************)
(* Text helpers.                                                           *)
(***************************************************************************)
None == -1         \* Python's None where an instant is expected
NoShow == <<>>     \* Python's None where a show id is expected

\* str.startswith
StartsWith(s, p) == Len(p) <= Len(s) /\ SubSeq(s, 1, Len(p)) = p

\* str.endswith
EndsWith(s, p) == Len(p) <= Len(s) /\ SubSeq(s, Len(s) - Len(p) + 1, Len(s)) = p

\* `p in s` for strings
Contains(s, p) ==
    \E k \in 1..(Len(s) - Len(p) + 1) : SubSeq(s, k, k + Len(p) - 1) = p

UpperToLower ==
    [c \in {"N", "E", "W", "S"} |->
        CASE c = "N" -> "n" [] c = "E" -> "e" [] c = "W" -> "w" [] c = "S" -> "s"]

\* str.lower
Lower(s) ==
    [k \in 1..Len(s) |-> IF s[k] \in DOMAIN UpperToLower THEN UpperToLower[s[k]] ELSE s[k]]

\* position of the first occurrence of character c in s, 0 when there is none
RECURSIVE FindFrom(_, _, _)
FindFrom(s, c, k) ==
    IF k > Len(s) THEN 0 ELSE IF s[k] = c THEN k ELSE FindFrom(s, c, k + 1)

\* s.split(c)[0]
SplitHead(s, c) ==
    LET k == FindFrom(s, c, 1) IN IF k = 0 THEN s ELSE SubSeq(s, 1, k - 1)

\* s.split(c): every field
RECURSIVE Split(_, _)
Split(s, c) ==
    LET k == FindFrom(s, c, 1)
    IN  IF k = 0 THEN <<s>> ELSE <<SubSeq(s, 1, k - 1)>> \o Split(SubSeq(s, k + 1, Len(s)), c)

\* s.split(c, maxsplit=2): at most two splits, the rest is the third field
SplitMax2(s, c) ==
    LET k1 == FindFrom(s, c, 1)
        r1 == SubSeq(s, k1 + 1, Len(s))
        k2 == FindFrom(r1, c, 1)
    IN  IF k1 = 0 THEN <<s>>
        ELSE IF k2 = 0 THEN <<SubSeq(s, 1, k1 - 1), r1>>
        ELSE <<SubSeq(s, 1, k1 - 1), SubSeq(r1, 1, k2 - 1), SubSeq(r1, k2 + 1, Len(r1))>>

Digit == [d \in 0..9 |->
    CASE d = 0 -> "0" [] d = 1 -> "1" [] d = 2 -> "2" [] d = 3 -> "3" [] d = 4 -> "4"
      [] d = 5 -> "5" [] d = 6 -> "6" [] d = 7 -> "7" [] d = 8 -> "8" [] d = 9 -> "9"]

DigitValue(c) == CHOOSE d \in 0..9 : Digit[d] = c

\* f"{date:%Y%m%d}" for the days of January 2024
FormatDate(day) == <<"2", "0", "2", "4", "0", "1", Digit[day \div 10], Digit[day % 10]>>

\* datetime.isoformat, reduced to the two digits that tell the model's instants apart
IsoFormat(t) == <<Digit[t \div 10], Digit[t % 10]>>

\* dateutil.parser.parse of such a text
ParseTimestamp(s) == DigitValue(s[1]) * 10 + DigitValue(s[2])

\* the order of str on the characters show ids are made of
CharOrd(c) == CASE c = "a" -> 1 [] c = "b" -> 2 [] OTHER -> 0

\* s < t for str
RECURSIVE StrLess(_, _)
StrLess(s, t) ==
    IF t = <<>> THEN FALSE
    ELSE IF s = <<>> THEN TRUE
    ELSE IF s[1] # t[1] THEN CharOrd(s[1]) < CharOrd(t[1])
    ELSE StrLess(Tail(s), Tail(t))

(***************************************************************************)
(* The configuration and the world outside the program.                    *)
(***************************************************************************)
\* FORMATS, in order of preference
FORMATS == <<"141", "140", "140-0", "139">>

\* raw_config['shows']: two shows in configuration order.  cron is the period of
\* the show's cron expression: its instants are the multiples of the period.
\* start is the day of start-timestamp (normalised to midnight UTC by load_config).
Config ==
    << [id |-> <<"a">>, url |-> <<"u1", "u2">>, cron |-> 2, start |-> 2,
        filters |-> [present |-> TRUE, list |-> << <<"N", "e", "w", "s">> >>]],
       [id |-> <<"a", "b">>, url |-> <<"u3">>, cron |-> 3, start |-> 1,
        filters |-> [present |-> FALSE, list |-> <<>>]] >>

ShowIds == {Config[k].id : k \in 1..Len(Config)}

\* The videos the playlists of a show may list: what yt-dlp reports of each
\* (flat listing: title, upload_date, url; full metadata: display_id, formats).
Catalogue(show_id) ==
    IF show_id = <<"a">> THEN
        { [url |-> "v1", title |-> <<"N", "e", "w", "s">>, date |-> 2,
           id |-> <<"k">>, formats |-> {"140", "139", "18"}],
          [url |-> "v2", title |-> <<"N", "E", "W", "S">>, date |-> 2,
           id |-> <<"k", "-", "z">>, formats |-> {"141", "140", "251"}],
          [url |-> "v3", title |-> <<"n", "e", "w", "s", "1">>, date |-> 1,
           id |-> <<"o", "_">>, formats |-> {"139"}],
          [url |-> "v4", title |-> <<"1", "n", "e", "w", "s">>, date |-> 3,
           id |-> <<"q">>, formats |-> {"18", "251"}],
          [url |-> "v5", title |-> <<"s", "p">>, date |-> 3,
           id |-> <<"p">>, formats |-> {"140"}] }
    ELSE
        { [url |-> "v6", title |-> <<"s", "p">>, date |-> 2,
           id |-> <<"k">>, formats |-> {"140-0", "139"}] }

AllEpisodes == UNION {Catalogue(s) : s \in ShowIds}

\* the listings of at most n episodes of a catalogue
ListingsUpTo(cat, n) == UNION {[1..k -> cat] : k \in 0..n}

AllVideos == {e.url : e \in AllEpisodes}

\* the videos listed in the runs over both shows (Spec)
RunsVideos == {"v1", "v4", "v6"}

\* what list_yt returns for each url of a show in one run: one listing per url,
\* maxl episodes in all, of the given videos
FlatListings(show, maxl, videos) ==
    LET cat == {e \in Catalogue(show.id) : e.url \in videos}
    IN  IF Len(show.url) = 1
        THEN {<<l>> : l \in ListingsUpTo(cat, maxl)}
        ELSE UNION { {<<l1, l2>> : l2 \in ListingsUpTo(cat, maxl - Len(l1))} :
                     l1 \in ListingsUpTo(cat, maxl) }

(***************************************************************************)
(* get_playlist_content                                                    *)
(***************************************************************************)
\* list.sort(key=upload_date): ascending and stable
RECURSIVE InsertAsc(_, _)
InsertAsc(s, x) ==
    IF s = <<>> THEN <<x>>
    ELSE IF s[Len(s)].date <= x.date THEN Append(s, x)
    ELSE Append(InsertAsc(SubSeq(s, 1, Len(s) - 1), x), s[Len(s)])

RECURSIVE SortAsc(_)
SortAsc(s) ==
    IF s = <<>> THEN <<>>
    ELSE InsertAsc(SortAsc(SubSeq(s, 1, Len(s) - 1)), s[Len(s)])

\* list.sort(key=date, reverse=True): descending and stable
RECURSIVE InsertDesc(_, _)
InsertDesc(s, x) ==
    IF s = <<>> THEN <<x>>
    ELSE IF s[Len(s)].date >= x.date THEN Append(s, x)
    ELSE Append(InsertDesc(SubSeq(s, 1, Len(s) - 1), x), s[Len(s)])

RECURSIVE SortDesc(_)
SortDesc(s) ==
    IF s = <<>> THEN <<>>
    ELSE InsertDesc(SortDesc(SubSeq(s, 1, Len(s) - 1)), s[Len(s)])

\* all_episodes.extend(list_yt(url)) for every url
RECURSIVE Concat(_)
Concat(ls) == IF ls = <<>> THEN <<>> ELSE Head(ls) \o Concat(Tail(ls))

\* filters = [x.lower() for x in filters]
LowerFilters(filters) ==
    IF filters.present
    THEN [filters EXCEPT !.list = [k \in 1..Len(filters.list) |-> Lower(filters.list[k])]]
    ELSE filters

\* the test of one episode in the selection loop
TitleMatches(title, filters) ==
    \/ ~filters.present
    \/ \E k \in 1..Len(filters.list) : Contains(Lower(title), filters.list[k])

\* the selection loop: the urls of the episodes that pass, in order
RECURSIVE CollectUseful(_, _)
CollectUseful(eps, filters) ==
    IF eps = <<>> THEN <<>>
    ELSE IF TitleMatches(Head(eps).title, filters)
         THEN <<Head(eps).url>> \o CollectUseful(Tail(eps), filters)
         ELSE CollectUseful(Tail(eps), filters)

\* the cap of useful[-10:]
MaxUseful == 10

\* the same keeping the first entries: useful[:10]
FirstUseful(useful) ==
    IF Len(useful) <= MaxUseful THEN useful ELSE SubSeq(useful, 1, MaxUseful)

\* useful[-10:]
LastUseful(useful) ==
    IF Len(useful) <= MaxUseful THEN useful
    ELSE SubSeq(useful, Len(useful) - MaxUseful + 1, Len(useful))

\* the sort, the filter and the cap: the urls handed to get_episodes_metadata
SelectEpisodes(all_episodes, filters) ==
    LastUseful(CollectUseful(SortAsc(all_episodes), LowerFilters(filters)))

\* get_episodes_metadata: the full metadata document of each url
RECURSIVE GetEpisodesMetadata(_)
GetEpisodesMetadata(urls) ==
    IF urls = <<>> THEN <<>>
    ELSE <<CHOOSE e \in AllEpisodes : e.url = Head(urls)>> \o GetEpisodesMetadata(Tail(urls))

\* the for/else over FORMATS: the first desired format present, "" when the
\* else branch (raise ValueError) is taken
RECURSIVE BestFormatFrom(_, _)
BestFormatFrom(all_formats_id, k) ==
    IF k > Len(FORMATS) THEN ""
    ELSE IF FORMATS[k] \in all_formats_id THEN FORMATS[k]
    ELSE BestFormatFrom(all_formats_id, k + 1)

\* the same scanning FORMATS from its last entry
BestFormatLast(all_formats_id) ==
    LET present == {k \in 1..Len(FORMATS) : FORMATS[k] \in all_formats_id}
    IN  IF present = {} THEN ""
        ELSE FORMATS[CHOOSE k \in present : \A j \in present : j <= k]

BestFormat(all_formats_id) == BestFormatFrom(all_formats_id, 1)

\* the loop building results: raises at the first document without a format
RECURSIVE BuildResults(_)
BuildResults(videos_metadata) ==
    IF videos_metadata = <<>> THEN [raised |-> FALSE, items |-> <<>>]
    ELSE LET d == Head(videos_metadata)
             best == BestFormat(d.formats)
             rest == BuildResults(Tail(videos_metadata))
         IN  IF best = "" \/ rest.raised THEN [raised |-> TRUE, items |-> <<>>]
             ELSE [raised |-> FALSE,
                   items |-> <<[item_id |-> d.id, date |-> d.date, title |-> d.title,
                                webpage_url |-> d.url, best_format |-> best]>> \o rest.items]

\* get_playlist_content: [raised, items, batch] where batch is videos_metadata
GetPlaylistContent(listings, filters) ==
    LET useful == SelectEpisodes(Concat(listings), filters)
        videos_metadata == GetEpisodesMetadata(useful)
        res == BuildResults(videos_metadata)
    IN  [raised |-> res.raised, items |-> SortDesc(res.items), batch |-> videos_metadata]

(***************************************************************************)
(* download, _download_and_process, write_podcast                          *)
(***************************************************************************)
Mp3Ext == <<".", "m", "p", "3">>

\* glob(join(mp3_location, show_id) + "*.mp3"), base names
AlreadyDownloaded(fs, show_id) ==
    {f \in fs : StartsWith(f, show_id) /\ EndsWith(f, Mp3Ext)}

\* f"{show_id}-{item.date:%Y%m%d}-{item.item_id}"
BaseName(show_id, item) ==
    show_id \o <<"-">> \o FormatDate(item.date) \o <<"-">> \o item.item_id

\* the same with the comparison reversed
BeforeStartReversed(start, item) == start < item.date

\* show_config['start-timestamp'] > item.date
BeforeStart(start, item) == start > item.date

\* the same with an exact match of the name in place of startswith
IsDownloadedExact(base_name, already_downloaded) ==
    \E x \in already_downloaded : x = base_name

\* any(x.startswith(base_name) for x in already_downloaded)
IsDownloaded(base_name, already_downloaded) ==
    \E x \in already_downloaded : StartsWith(x, base_name)

\* _download_and_process: the files of podcast-dir afterwards.  ok: yt-dlp wrote
\* base_path, ffmpeg wrote base_path.mp3, base_path was unlinked.  Otherwise
\* ffmpeg failed (CalledProcessError), and the intermediate file is there when
\* yt-dlp had written it (keep) or a previous run had left it.
DownloadAndProcess(fs, base_name, ok, keep) ==
    IF ok THEN (fs \ {base_name}) \cup {base_name \o Mp3Ext}
    ELSE IF keep THEN fs \cup {base_name} ELSE fs

\* the for loop of download over the playlist.  failAt: which call of
\* _download_and_process fails (0: none).  sent: the calls made, each with the
\* files of podcast-dir at that time.
RECURSIVE DownloadLoop(_, _, _, _, _, _, _)
DownloadLoop(items, fs, already_downloaded, show, failAt, keep, sent) ==
    IF items = <<>> THEN [raised |-> FALSE, files |-> fs, sent |-> sent]
    ELSE LET item == Head(items)
             base_name == BaseName(show.id, item)
             call == [key |-> base_name, item_id |-> item.item_id, date |-> item.date,
                      disk |-> fs]
         IN  IF BeforeStart(show.start, item)
             THEN DownloadLoop(Tail(items), fs, already_downloaded, show, failAt, keep, sent)
             ELSE IF IsDownloaded(base_name, already_downloaded)
             THEN DownloadLoop(Tail(items), fs, already_downloaded, show, failAt, keep, sent)
             ELSE IF Len(sent) + 1 = failAt
             THEN [raised |-> TRUE, files |-> DownloadAndProcess(fs, base_name, FALSE, keep),
                   sent |-> Append(sent, call)]
             ELSE DownloadLoop(Tail(items), DownloadAndProcess(fs, base_name, TRUE, keep),
                               already_downloaded, show, failAt, keep, Append(sent, call))

\* the same without maxsplit
EpisodeIdFieldsAll(mp3_id) == Split(mp3_id, "-")

\* mp3_id.split("-", maxsplit=2)
EpisodeIdFields(mp3_id) == SplitMax2(mp3_id, "-")

\* write_podcast: the entries of the regenerated feed; raised when the file
\* name has no third field (IndexError)
WritePodcast(show_id, fs, playlist) ==
    LET all_mp3s == {f \in fs : StartsWith(f, show_id \o <<"-">>) /\ EndsWith(f, Mp3Ext)}
        metadata == {playlist[k].item_id : k \in 1..Len(playlist)}
        mp3_id(f) == SplitHead(f, ".")
        bad == {f \in all_mp3s : Len(EpisodeIdFields(mp3_id(f))) < 3}
        joined == {f \in all_mp3s \ bad : EpisodeIdFields(mp3_id(f))[3] \in metadata}
    IN  [raised |-> bad # {},
         entries |-> {[id |-> mp3_id(f), episode |-> EpisodeIdFields(mp3_id(f))[3]] :
                        f \in joined}]

\* get_playlist_content of every show on every flat listing, computed once
PlaylistContent ==
    [k \in 1..Len(Config) |->
        [listings \in FlatListings(Config[k], MaxListing, AllVideos) |->
            GetPlaylistContent(listings, Config[k].filters)]]

ConfigIndex(show) == CHOOSE k \in 1..Len(Config) : Config[k].id = show.id

\* how _download_and_process may fail in one run of download: <<failAt, keep>>
Failures(maxl) == {<<0, FALSE>>} \cup ((1..maxl) \X BOOLEAN)

\* download(show_config, main_config) on the given flat listings
Download(show, listings, fs, failAt, keep) ==
    LET pl == PlaylistContent[ConfigIndex(show)][listings]
        loop == DownloadLoop(pl.items, fs, AlreadyDownloaded(fs, show.id), show,
                             failAt, keep, <<>>)
        wp == WritePodcast(show.id, loop.files, pl.items)
    IN  IF pl.raised
        THEN [raised |-> TRUE, error |-> "ValueError", files |-> fs, sent |-> <<>>,
              wrote |-> FALSE, entries |-> {}, playlist |-> <<>>, batch |-> pl.batch]
        ELSE IF loop.raised
        THEN [raised |-> TRUE, error |-> "CalledProcessError", files |-> loop.files,
              sent |-> loop.sent, wrote |-> FALSE, entries |-> {}, playlist |-> pl.items,
              batch |-> pl.batch]
        ELSE IF wp.raised
        THEN [raised |-> TRUE, error |-> "IndexError", files |-> loop.files,
              sent |-> loop.sent, wrote |-> FALSE, entries |-> {}, playlist |-> pl.items,
              batch |-> pl.batch]
        ELSE [raised |-> FALSE, error |-> "", files |-> loop.files, sent |-> loop.sent,
              wrote |-> TRUE, entries |-> wp.entries, playlist |-> pl.items,
              batch |-> pl.batch]

(***************************************************************************)
(* check_show                                                              *)
(***************************************************************************)
\* croniter(cron, last_process).get_next(): the first instant of the schedule
\* strictly after last_process
CronNext(cron, last_process) == ((last_process \div cron) + 1) * cron

\* the same with the comparison next_date >= now
IsDueLate(selected, last_process, cron, t) ==
    IF selected # NoShow THEN TRUE
    ELSE IF last_process = None THEN TRUE
    ELSE IF CronNext(cron, last_process) >= t THEN FALSE
    ELSE TRUE

\* the if/elif/else of check_show: whether download is called
IsDue(selected, last_process, cron, t) ==
    IF selected # NoShow THEN TRUE
    ELSE IF last_process = None THEN TRUE
    ELSE IF CronNext(cron, last_process) > t THEN FALSE
    ELSE TRUE

(***************************************************************************)
(* History                                                                 *)
(***************************************************************************)
HistoryFile == "hist"

\* the same writing the history file in place
TempPathInPlace(history_file) == history_file

\* temp_path = self.history_file + ".temp"
TempPath(history_file) == history_file \o ".temp"

Paths == {HistoryFile, HistoryFile \o ".temp"}

NoFile == [exists |-> FALSE, lines |-> <<>>]

NoData == [s \in ShowIds |-> None]

\* "{} {}\n".format(show_id, last_time.isoformat())
FormatLine(show_id, last_time) == show_id \o <<" ">> \o IsoFormat(last_time)

\* History.__init__: the lines of the file, split and parsed, into a dict
RECURSIVE LoadLines(_, _)
LoadLines(lines, d) ==
    IF lines = <<>> THEN d
    ELSE LET fields == Split(Head(lines), " ")
         IN  LoadLines(Tail(lines), [d EXCEPT ![fields[1]] = ParseTimestamp(fields[2])])

HistoryLoad(dsk) ==
    IF dsk[HistoryFile].exists THEN LoadLines(dsk[HistoryFile].lines, NoData) ELSE NoData

\* sorted(self.data.items())
RECURSIVE SortedIds(_)
SortedIds(ids) ==
    IF ids = {} THEN <<>>
    ELSE LET m == CHOOSE x \in ids : \A y \in ids \ {x} : StrLess(x, y)
         IN  <<m>> \o SortedIds(ids \ {m})

SortedItems(d) == SortedIds({s \in ShowIds : d[s] # None})

\* the same forgetting the assignment
HistorySetNothing(d, show_id, last_run) == d

\* History.set: self.data[show_id] = last_run
HistorySet(d, show_id, last_run) == [d EXCEPT ![show_id] = last_run]

\* os.rename(src, dst)
Rename(dsk, src, dst) ==
    IF src = dst THEN dsk ELSE [dsk EXCEPT ![dst] = dsk[src], ![src] = NoFile]

(***************************************************************************)
(* load_config                                                             *)
(***************************************************************************)
\* the shows kept: all of them, or the selected one
LoadConfig(selected) ==
    SelectSeq(Config, LAMBDA c : selected = NoShow \/ selected = c.id)

(***************************************************************************)
(* The state machine.                                                      *)
(***************************************************************************)
NoObs ==
    [valid |-> FALSE, show |-> NoShow, forced |-> FALSE, last_process |-> None,
     now |-> 0, ran |-> FALSE, raised |-> FALSE, error |-> "", sent |-> <<>>,
     wrote |-> FALSE,
     entries |-> {}, playlist |-> <<>>, batch |-> <<>>, filesBefore |-> {},
     histBefore |-> NoFile, saved |-> FALSE]

\* what check_show did to podcast-dir is forgotten once the run has moved on
Forget(o) ==
    [o EXCEPT !.sent = <<>>, !.entries = {}, !.playlist = <<>>, !.batch = <<>>,
              !.filesBefore = {}]

NoSel == [done |-> FALSE, listing |-> <<>>, filters |-> [present |-> FALSE, list |-> <<>>],
          useful |-> <<>>]

\* the process is gone, and its memory with it
ProcessGone ==
    /\ pc' = "idle"
    /\ selected_show' = NoShow
    /\ shows' = <<>>
    /\ idx' = 0
    /\ data' = NoData
    /\ wpos' = 0

Init ==
    /\ now = 1
    /\ pc = "idle"
    /\ selected_show = NoShow
    /\ shows = <<>>
    /\ idx = 0
    /\ data = NoData
    /\ wpos = 0
    /\ disk = [p \in Paths |-> NoFile]
    /\ files = {}
    /\ visited = {}
    /\ endedBy = "none"
    /\ obs = NoObs
    /\ sel = NoSel

\* time passes between two runs of the program
Tick ==
    /\ pc = "idle"
    /\ now < MaxNow
    /\ now' = now + 1
    /\ obs' = Forget(obs)
    /\ UNCHANGED <<pc, selected_show, shows, idx, data, wpos, disk, files,
                   visited, endedBy, sel>>

\* the program is started with --show s (s in selectable): main() up to the for loop
StartRun(selectable) ==
    /\ pc = "idle"
    /\ \E s \in selectable :
          /\ selected_show' = s
          /\ shows' = LoadConfig(s)
    /\ data' = HistoryLoad(disk)
    /\ idx' = 1
    /\ wpos' = 0
    /\ pc' = "loop"
    /\ visited' = {}
    /\ endedBy' = "none"
    /\ obs' = NoObs
    /\ UNCHANGED <<now, disk, files, sel>>

\* one iteration of the for loop of main(): history.get, check_show, and the
\* assignment of history.set; _save follows in SaveOpen, SaveWrite, SaveRename.
\* The flat listings hold maxl episodes at most, of the given videos.
CheckShow(maxl, videos) ==
    /\ pc = "loop"
    /\ idx <= Len(shows)
    /\ LET show == shows[idx]
           last_process == data[show.id]
           o == [NoObs EXCEPT !.valid = TRUE, !.show = show.id,
                              !.forced = (selected_show # NoShow),
                              !.last_process = last_process, !.now = now,
                              !.filesBefore = files, !.histBefore = disk[HistoryFile]]
       IN  /\ visited' = visited \cup {show.id}
           /\ IF IsDue(selected_show, last_process, show.cron, now)
              THEN \E listings \in FlatListings(show, maxl, videos), fail \in Failures(maxl) :
                     \E r \in {Download(show, listings, files, fail[1], fail[2])} :
                         /\ files' = r.files
                         /\ obs' = [o EXCEPT !.ran = TRUE, !.raised = r.raised,
                                             !.error = r.error,
                                             !.sent = r.sent, !.wrote = r.wrote,
                                             !.entries = r.entries,
                                             !.playlist = r.playlist, !.batch = r.batch]
                         /\ IF r.raised
                            THEN /\ ProcessGone
                                 /\ endedBy' = "exception"
                            ELSE /\ data' = HistorySet(data, show.id, now)
                                 /\ pc' = "save_open"
                                 /\ UNCHANGED <<selected_show, shows, idx, wpos, endedBy>>
              ELSE /\ obs' = o
                   /\ data' = HistorySet(data, show.id, now)
                   /\ pc' = "save_open"
                   /\ UNCHANGED <<selected_show, shows, idx, wpos, files, endedBy>>
    /\ UNCHANGED <<now, disk, sel>>

\* _save: open(temp_path, 'wt')
SaveOpen ==
    /\ pc = "save_open"
    /\ disk' = [disk EXCEPT ![TempPath(HistoryFile)] = [exists |-> TRUE, lines |-> <<>>]]
    /\ wpos' = 0
    /\ pc' = "save_write"
    /\ obs' = Forget(obs)
    /\ UNCHANGED <<now, selected_show, shows, idx, data, files, visited, endedBy, sel>>

\* _save: fh.write of the next line
SaveWrite ==
    /\ pc = "save_write"
    /\ wpos < Len(SortedItems(data))
    /\ LET show_id == SortedItems(data)[wpos + 1]
           path == TempPath(HistoryFile)
       IN  disk' = [disk EXCEPT ![path].lines =
                        Append(@, FormatLine(show_id, data[show_id]))]
    /\ wpos' = wpos + 1
    /\ UNCHANGED <<now, pc, selected_show, shows, idx, data, files, visited,
                   endedBy, obs, sel>>

\* _save: os.rename(temp_path, self.history_file), and the loop of main() goes on
SaveRename ==
    /\ pc = "save_write"
    /\ wpos = Len(SortedItems(data))
    /\ disk' = Rename(disk, TempPath(HistoryFile), HistoryFile)
    /\ obs' = [obs EXCEPT !.saved = TRUE]
    /\ idx' = idx + 1
    /\ pc' = "loop"
    /\ UNCHANGED <<now, selected_show, shows, data, wpos, files, visited, endedBy, sel>>

\* the for loop of main() is over: "Done"
EndRun ==
    /\ pc = "loop"
    /\ idx > Len(shows)
    /\ ProcessGone
    /\ endedBy' = "done"
    /\ UNCHANGED <<now, disk, files, visited, obs, sel>>

\* the process is killed from outside
Kill ==
    /\ pc # "idle"
    /\ ProcessGone
    /\ endedBy' = "killed"
    /\ obs' = Forget(obs)
    /\ UNCHANGED <<now, disk, files, visited, sel>>

\* The program run again and again over both shows, with or without --show,
\* as time passes.
Next ==
    \/ Tick
    \/ StartRun({NoShow} \cup ShowIds)
    \/ CheckShow(MaxListingRuns, RunsVideos)
    \/ SaveOpen
    \/ SaveWrite
    \/ SaveRename
    \/ EndRun
    \/ Kill

Spec == Init /\ [][Next]_vars

\* The program run again and again with --show for the first show, at one
\* instant, on longer listings; the other show may have been downloaded before.
InitDl ==
    /\ now = 1
    /\ pc = "idle"
    /\ selected_show = NoShow
    /\ shows = <<>>
    /\ idx = 0
    /\ data = NoData
    /\ wpos = 0
    /\ disk = [p \in Paths |-> NoFile]
    /\ files \in SUBSET {BaseName(Config[2].id, [date |-> e.date, item_id |-> e.id]) \o Mp3Ext :
                            e \in Catalogue(Config[2].id)}
    /\ visited = {}
    /\ endedBy = "none"
    /\ obs = NoObs
    /\ sel = NoSel

NextDl ==
    \/ StartRun({Config[1].id})
    \/ CheckShow(MaxListing, AllVideos)
    \/ SaveOpen
    \/ SaveWrite
    \/ SaveRename
    \/ EndRun
    \/ Kill

SpecDl == InitDl /\ [][NextDl]_vars

(***************************************************************************)
(* The episode selector on its own, on longer listings.                    *)
(***************************************************************************)
SelTitles == { <<"x", "N", "e", "W", "S">>, <<"n", "e", "w">> }

SelFilters ==
    { [present |-> FALSE, list |-> <<>>],
      [present |-> TRUE, list |-> << <<"s", "p">>, <<"n", "E", "w", "s">> >>] }

InitSel ==
    /\ now = 1
    /\ pc = "idle"
    /\ selected_show = NoShow
    /\ shows = <<>>
    /\ idx = 0
    /\ data = NoData
    /\ wpos = 0
    /\ disk = [p \in Paths |-> NoFile]
    /\ files = {}
    /\ visited = {}
    /\ endedBy = "none"
    /\ obs = NoObs
    /\ \E f \in SelFilters : sel = [NoSel EXCEPT !.filters = f]

\* list_yt returns one more episode, no older than the ones before it
SelList ==
    /\ ~sel.done
    /\ Len(sel.listing) < MaxEpisodes
    /\ \E t \in SelTitles :
          sel' = [sel EXCEPT !.listing =
                      Append(@, [url |-> Len(@) + 1, title |-> t, date |-> (Len(@) + 2) \div 2])]
    /\ UNCHANGED <<now, pc, selected_show, shows, idx, data, wpos, disk, files,
                   visited, endedBy, obs>>

\* the sort, the filter and the cap of get_playlist_content
SelApply ==
    /\ ~sel.done
    /\ sel' = [sel EXCEPT !.done = TRUE, !.useful = SelectEpisodes(sel.listing, sel.filters)]
    /\ UNCHANGED <<now, pc, selected_show, shows, idx, data, wpos, disk, files,
                   visited, endedBy, obs>>

NextSel ==
    \/ SelList
    \/ SelApply

SpecSel == InitSel /\ [][NextSel]_vars

(***************************************************************************)
(* Properties.                                                             *)
(***************************************************************************)
ShowOf(show_id) == CHOOSE k \in 1..Len(Config) : Config[k].id = show_id

SentKeys == {obs.sent[k].key : k \in DOMAIN obs.sent}

\* a completed audio file of the episode with this key is among these files
HasMp3(fs, key) == \E f \in fs : EndsWith(f, Mp3Ext) /\ StartsWith(f, key)

KeyOf(item) ==
    obs.show \o <<"-">> \o FormatDate(item.date) \o <<"-">> \o item.item_id

\* C1: when the pipeline of one show fails in a run, every later show of the
\* configuration is still processed in that run.
C1_FailureIsolation ==
    (pc = "idle" /\ endedBy = "exception" /\ ~obs.forced) =>
        \A k \in (ShowOf(obs.show) + 1)..Len(Config) : Config[k].id \in visited

\* C2 as stated: the history entry of a show is the time of the last run in
\* which its pipeline ran and completed: a run in which the show was not due, or
\* in which its pipeline failed, leaves the entry as it was, and a successful one
\* sets it to the time of the run.
C2_HistoryIsLastSuccess ==
    obs.valid =>
        IF obs.ran /\ ~obs.raised
        THEN obs.saved => HistoryLoad(disk)[obs.show] = obs.now
        ELSE HistoryLoad(disk)[obs.show] = obs.last_process

\* C2 amended: the history entry of a show is the time of the last run in which
\* check_show returned for it, the show being not due or its pipeline having
\* completed; a run in which its pipeline failed leaves the entry as it was.
C2_HistoryIsLastReturn ==
    obs.valid =>
        IF obs.raised
        THEN HistoryLoad(disk)[obs.show] = obs.last_process
        ELSE /\ HistoryLoad(disk)[obs.show] \in {obs.last_process, obs.now}
             /\ obs.saved => HistoryLoad(disk)[obs.show] = obs.now

\* a run in which the show was not due has changed its entry
C2_Witness ==
    /\ obs.valid /\ ~obs.ran /\ obs.saved
    /\ HistoryLoad(disk)[obs.show] = obs.now
    /\ obs.now # obs.last_process

\* C3: check_show processes a show iff it is force-selected, or has no last-run
\* entry, or the first cron instant strictly after last-run is not later than
\* now; a show left unprocessed has no download and no feed write.
C3_DueDecision ==
    obs.valid =>
        LET cron == Config[ShowOf(obs.show)].cron
            instants == {t \in 0..(obs.last_process + cron) : t % cron = 0 /\ t > obs.last_process}
            next_date == CHOOSE t \in instants : \A u \in instants : t <= u
        IN  /\ obs.ran <=> (obs.forced \/ obs.last_process = None \/ next_date <= obs.now)
            /\ ~obs.ran => (obs.sent = <<>> /\ ~obs.wrote /\ ~obs.raised)
            /\ (~obs.ran /\ pc = "save_open") => files = obs.filesBefore

\* the show was not forced, had a last-run entry, and was due by its cron expression
C3_Witness ==
    obs.valid /\ ~obs.forced /\ obs.last_process # None /\ obs.ran /\ obs.sent # <<>>

\* C4 as stated: an episode is sent to the pipeline only if no file name in the
\* output directory starts with its prefix at that time.
C4_NoFileWithPrefixWhenSent ==
    obs.valid =>
        \A k \in DOMAIN obs.sent :
            ~\E f \in obs.sent[k].disk : StartsWith(f, obs.sent[k].key)

\* C4 amended: an episode is sent to the pipeline only if no .mp3 file name that
\* was in the output directory when the show's download started starts with its
\* prefix; a download that completes has sent every selected episode, not before
\* start-timestamp, that lacked such a file.
C4_NoMp3WithPrefixAtStart ==
    obs.valid =>
        /\ \A k \in DOMAIN obs.sent : ~HasMp3(obs.filesBefore, obs.sent[k].key)
        /\ (obs.ran /\ obs.error = "") =>
              \A k \in DOMAIN obs.playlist :
                  LET item == obs.playlist[k]
                  IN  (item.date >= Config[ShowOf(obs.show)].start
                       /\ ~HasMp3(obs.filesBefore, KeyOf(item))) => KeyOf(item) \in SentKeys

\* a run re-attempts the episode an aborted run left an intermediate file of,
\* and skips the one whose audio file is there
C4_Witness ==
    /\ obs.valid
    /\ \E k \in DOMAIN obs.sent : obs.sent[k].key \in obs.filesBefore
    /\ \E k \in DOMAIN obs.playlist : HasMp3(obs.filesBefore, KeyOf(obs.playlist[k]))

\* C5: no episode published before the show's start-timestamp is downloaded;
\* skipping one raises no error: a download whose episodes are all skipped
\* completes and writes the feed.
C5_NeverBeforeStart ==
    obs.valid =>
        /\ \A k \in DOMAIN obs.sent : obs.sent[k].date >= Config[ShowOf(obs.show)].start
        /\ \A k \in DOMAIN obs.playlist :
              obs.playlist[k].date < Config[ShowOf(obs.show)].start =>
                  KeyOf(obs.playlist[k]) \notin SentKeys
        /\ (obs.ran /\ obs.playlist # <<>> /\ obs.sent = <<>>) => obs.wrote

\* an episode before start-timestamp was skipped and another one was downloaded
C5_Witness ==
    /\ obs.valid /\ obs.wrote
    /\ \E k \in DOMAIN obs.playlist :
          obs.playlist[k].date < Config[ShowOf(obs.show)].start
    /\ obs.sent # <<>>

\* C6: every episode a run downloads appears in the feed that run writes, under
\* the episode id its file name was built from.
C6_DownloadedIsInFeed ==
    (obs.valid /\ obs.wrote) =>
        \A k \in DOMAIN obs.sent :
            \E e \in obs.entries :
                e.id = obs.sent[k].key /\ e.episode = obs.sent[k].item_id

\* an episode whose id holds a "-" was downloaded and the feed was written
C6_Witness ==
    /\ obs.valid /\ obs.wrote
    /\ \E k \in DOMAIN obs.sent : \E p \in DOMAIN obs.sent[k].item_id :
          obs.sent[k].item_id[p] = "-"

\* C7: from history.set on, also when the process is killed inside _save, a
\* fresh load of the history file returns either the entries from before the
\* call or those entries with the show's set to the new time, never less; once
\* _save has returned it returns the latter.
C7_AtomicSave ==
    (obs.valid /\ ~obs.raised) =>
        LET old == HistoryLoad([disk EXCEPT ![HistoryFile] = obs.histBefore])
            new == [old EXCEPT ![obs.show] = obs.now]
            cur == HistoryLoad(disk)
            count(d) == Cardinality({s \in ShowIds : d[s] # None})
        IN  /\ cur = old \/ cur = new
            /\ disk[HistoryFile].exists => Len(disk[HistoryFile].lines) = count(cur)
            /\ obs.saved => (cur = new /\ disk[HistoryFile].exists)

\* the process was killed while _save was writing, with another show's entry
\* in the history file
C7_Witness ==
    /\ obs.valid /\ ~obs.saved /\ endedBy = "killed"
    /\ disk[TempPath(HistoryFile)].exists
    /\ Len(disk[TempPath(HistoryFile)].lines) = 1
    /\ \E s \in ShowIds \ {obs.show} : HistoryLoad(disk)[s] # None

\* two characters are the same letter, whatever their case
SameLetter(c, d) ==
    \/ c = d
    \/ <<c, d>> \in {<<"N", "n">>, <<"E", "e">>, <<"W", "w">>, <<"S", "s">>}
    \/ <<d, c>> \in {<<"N", "n">>, <<"E", "e">>, <<"W", "w">>, <<"S", "s">>}

\* the title holds the keyword as a case-insensitive substring
HoldsKeyword(title, f) ==
    \E p \in 0..(Len(title) - Len(f)) : \A j \in 1..Len(f) : SameLetter(title[p + j], f[j])

\* C8: the selected urls are, in their order, the last 10 (or all, when fewer) of
\* the episodes whose title holds a filter keyword as a case-insensitive
\* substring; every episode qualifies when there is no filter list.
C8_SelectorLastTen ==
    sel.done =>
        LET qualifies(e) ==
                \/ ~sel.filters.present
                \/ \E k \in DOMAIN sel.filters.list : HoldsKeyword(e.title, sel.filters.list[k])
            q == SelectSeq(sel.listing, qualifies)
            n == IF Len(q) < 10 THEN Len(q) ELSE 10
        IN  sel.useful = [i \in 1..n |-> q[Len(q) - n + i].url]

\* more than 10 episodes qualify, by a keyword in another case inside the
\* title, and one does not
C8_Witness ==
    /\ sel.done
    /\ sel.filters.present
    /\ Len(sel.useful) = 10
    /\ \E k \in DOMAIN sel.listing :
          /\ k < sel.useful[1]
          /\ \E i \in DOMAIN sel.filters.list :
                HoldsKeyword(sel.listing[k].title, sel.filters.list[i])
    /\ \E k \in DOMAIN sel.listing :
          /\ k > sel.useful[1]
          /\ \A i \in DOMAIN sel.filters.list :
                ~HoldsKeyword(sel.listing[k].title, sel.filters.list[i])

Preferred == <<"141", "140", "140-0", "139">>

\* C9: when an episode of the batch offers none of the preferred formats, the
\* resolution raises: no episode is downloaded and the feed is not written;
\* otherwise every episode's format is the first preferred one it offers.
C9_AllOrNothingFormats ==
    (obs.valid /\ obs.ran) =>
        IF \E k \in DOMAIN obs.batch : \A i \in DOMAIN Preferred :
                Preferred[i] \notin obs.batch[k].formats
        THEN obs.raised /\ obs.sent = <<>> /\ ~obs.wrote /\ files = obs.filesBefore
        ELSE /\ Len(obs.playlist) = Len(obs.batch)
             /\ \A k \in DOMAIN obs.playlist :
                   LET offered == (CHOOSE e \in AllEpisodes :
                                       e.url = obs.playlist[k].webpage_url).formats
                   IN  \E i \in DOMAIN Preferred :
                           /\ obs.playlist[k].best_format = Preferred[i]
                           /\ Preferred[i] \in offered
                           /\ \A j \in 1..(i - 1) : Preferred[j] \notin offered

\* the batch held an episode without a preferred format and one with, not yet
\* downloaded and not before start-timestamp
C9_Witness ==
    /\ obs.valid /\ obs.raised /\ obs.error = "ValueError"
    /\ \E k \in DOMAIN obs.batch :
          /\ \E i \in DOMAIN Preferred : Preferred[i] \in obs.batch[k].formats
          /\ obs.batch[k].date >= Config[ShowOf(obs.show)].start
          /\ ~HasMp3(obs.filesBefore,
                     KeyOf([date |-> obs.batch[k].date, item_id |-> obs.batch[k].id]))

\* C10: within one run of download, no key is sent to the pipeline twice.
C10_NoKeySentTwice ==
    obs.valid =>
        \A j, k \in DOMAIN obs.sent : j # k => obs.sent[j].key # obs.sent[k].key
====
